---- MODULE Spec2Model ----
(***************************************************************************)
(* A model of the pico-state store: src/src/store.ts (Store and PubSub)    *)
(* and src/src/utils/helpers.ts (cloneObject, isObject, isString,          *)
(* isEqual).                                                               *)
(*                                                                         *)
(* JavaScript values live in a heap of objects, so that two references to  *)
(* one object are distinguishable from two equal objects.  JSON text is a  *)
(* sequence of tokens, written by JSONstringify and read back by           *)
(* JSONparse.                                                              *)
(***************************************************************************)
EXTENDS Integers, Sequences, FiniteSets, TLC

\* ------------------------------------------------------------------------
\* Bounds of the model
\* ------------------------------------------------------------------------

\* how many calls of the public API one behaviour makes
MaxCalls == 3

\* ------------------------------------------------------------------------
\* JavaScript values.  Every value is a record of the same shape:
\*   t    : "undefined" | "null" | "number" | "object" | "array" | "ref"
\*   n    : the number (t = "number") or the heap address (t = "ref")
\*   kids : the own enumerable properties << <<key, value>>, ... >> in
\*          insertion order (t = "object" or "array")
\* A tree has no "ref"; a heap value has a "ref" wherever an object or an
\* array stands.
\* ------------------------------------------------------------------------

Undefined == [t |-> "undefined", n |-> 0, kids |-> <<>>]

Null == [t |-> "null", n |-> 0, kids |-> <<>>]

Num(n) == [t |-> "number", n |-> n, kids |-> <<>>]

Obj(kids) == [t |-> "object", n |-> 0, kids |-> kids]

Arr(kids) == [t |-> "array", n |-> 0, kids |-> kids]

Ref(r) == [t |-> "ref", n |-> r, kids |-> <<>>]

IsContainer(v) == v.t \in {"object", "array"}

\* obj[k]: the value of an own property, undefined when there is none
RECURSIVE GetKey(_, _)
GetKey(kids, k) ==
    IF kids = <<>> THEN Undefined
    ELSE IF Head(kids)[1] = k THEN Head(kids)[2]
    ELSE GetKey(Tail(kids), k)

HasKey(kids, k) == \E i \in 1..Len(kids) : kids[i][1] = k

\* obj[k] = v: an existing property keeps its place, a new one goes last
SetKey(kids, k, v) ==
    IF HasKey(kids, k)
    THEN [i \in 1..Len(kids) |-> IF kids[i][1] = k THEN <<k, v>> ELSE kids[i]]
    ELSE Append(kids, <<k, v>>)

\* { ...a, ...b } on property lists
RECURSIVE SpreadInto(_, _)
SpreadInto(acc, kids) ==
    IF kids = <<>> THEN acc
    ELSE SpreadInto(SetKey(acc, Head(kids)[1], Head(kids)[2]), Tail(kids))

\* `const name = value;` followed by the statements that use the name
With(value, Rest(_)) == Rest(value)

\* ------------------------------------------------------------------------
\* JSON text: a sequence of tokens <<kind, text, number>>
\* ------------------------------------------------------------------------

Punct(c) == <<"punct", c, 0>>

StrTok(s) == <<"string", s, 0>>

NumTok(n) == <<"number", "", n>>

LitTok(w) == <<"word", w, 0>>

\* JSON.stringify of a tree that is not undefined
RECURSIVE Serialize(_), SerializeMembers(_, _), SerializeItems(_, _)
Serialize(v) ==
    CASE v.t = "null" -> << LitTok("null") >>
      [] v.t = "number" -> << NumTok(v.n) >>
      [] v.t = "object" ->
            << Punct("{") >> \o SerializeMembers(v.kids, TRUE) \o << Punct("}") >>
      [] v.t = "array" ->
            << Punct("[") >> \o SerializeItems(v.kids, TRUE) \o << Punct("]") >>
      [] OTHER -> << LitTok("null") >>

\* a property whose value is undefined is left out
SerializeMembers(kids, first) ==
    IF kids = <<>> THEN <<>>
    ELSE IF Head(kids)[2].t = "undefined" THEN SerializeMembers(Tail(kids), first)
    ELSE (IF first THEN <<>> ELSE << Punct(",") >>)
         \o << StrTok(Head(kids)[1]), Punct(":") >>
         \o Serialize(Head(kids)[2])
         \o SerializeMembers(Tail(kids), FALSE)

\* an array element that is undefined is written null; a property of an
\* array that is no index is left out
SerializeItems(kids, first) ==
    IF kids = <<>> THEN <<>>
    ELSE IF Head(kids)[1] \notin {"0", "1", "2", "3"} THEN SerializeItems(Tail(kids), first)
    ELSE (IF first THEN <<>> ELSE << Punct(",") >>)
         \o Serialize(Head(kids)[2])
         \o SerializeItems(Tail(kids), FALSE)

\* JSON.stringify(v): undefined for undefined, else the text
JSONstringify(v) ==
    IF v.t = "undefined" THEN [undef |-> TRUE, text |-> <<>>]
    ELSE [undef |-> FALSE, text |-> Serialize(v)]

ParseFail == [ok |-> FALSE, v |-> Undefined, next |-> 0]

IndexKey(i) == CASE i = 0 -> "0" [] i = 1 -> "1" [] i = 2 -> "2" [] OTHER -> "3"

\* recursive descent from token i: [ok, v, next]
RECURSIVE ParseValue(_, _), ParseMembers(_, _, _, _), ParseItems(_, _, _, _)
ParseValue(toks, i) ==
    IF i > Len(toks) THEN ParseFail
    ELSE LET tk == toks[i] IN
         CASE tk = LitTok("null") -> [ok |-> TRUE, v |-> Null, next |-> i + 1]
           [] tk[1] = "number" -> [ok |-> TRUE, v |-> Num(tk[3]), next |-> i + 1]
           [] tk = Punct("{") -> ParseMembers(toks, i + 1, <<>>, TRUE)
           [] tk = Punct("[") -> ParseItems(toks, i + 1, <<>>, TRUE)
           [] OTHER -> ParseFail

ParseMembers(toks, i, acc, first) ==
    IF i > Len(toks) THEN ParseFail
    ELSE IF first /\ toks[i] = Punct("}")
    THEN [ok |-> TRUE, v |-> Obj(acc), next |-> i + 1]
    ELSE IF toks[i][1] # "string" \/ i + 1 > Len(toks) \/ toks[i + 1] # Punct(":")
    THEN ParseFail
    ELSE LET r == ParseValue(toks, i + 2) IN
         IF ~r.ok \/ r.next > Len(toks) THEN ParseFail
         ELSE IF toks[r.next] = Punct(",")
         THEN ParseMembers(toks, r.next + 1, SetKey(acc, toks[i][2], r.v), FALSE)
         ELSE IF toks[r.next] = Punct("}")
         THEN [ok |-> TRUE, v |-> Obj(SetKey(acc, toks[i][2], r.v)), next |-> r.next + 1]
         ELSE ParseFail

ParseItems(toks, i, acc, first) ==
    IF i > Len(toks) THEN ParseFail
    ELSE IF first /\ toks[i] = Punct("]")
    THEN [ok |-> TRUE, v |-> Arr(acc), next |-> i + 1]
    ELSE LET r == ParseValue(toks, i) IN
         IF ~r.ok \/ r.next > Len(toks) THEN ParseFail
         ELSE IF toks[r.next] = Punct(",")
         THEN ParseItems(toks, r.next + 1, Append(acc, <<IndexKey(Len(acc)), r.v>>), FALSE)
         ELSE IF toks[r.next] = Punct("]")
         THEN [ok |-> TRUE, v |-> Arr(Append(acc, <<IndexKey(Len(acc)), r.v>>)),
               next |-> r.next + 1]
         ELSE ParseFail

\* JSON.parse(text): [ok, v]; not ok is a SyntaxError
JSONparse(toks) ==
    With(ParseValue(toks, 1), LAMBDA r :
        IF r.ok /\ r.next = Len(toks) + 1 THEN [ok |-> TRUE, v |-> r.v]
        ELSE [ok |-> FALSE, v |-> Undefined])

\* the argument of JSON.parse is turned into a string first: undefined
\* becomes the text "undefined", which is no JSON
TextOf(s) == IF s.undef THEN << LitTok("undefined") >> ELSE s.text

\* the mark Deref leaves where an object contains itself
Circular == [t |-> "circular", n |-> 0, kids |-> <<>>]

RECURSIVE HasCircular(_)
HasCircular(v) ==
    \/ v.t = "circular"
    \/ \E i \in 1..Len(v.kids) : HasCircular(v.kids[i][2])

\* helpers.ts cloneObject on a tree: [ok, v, err].  JSON.stringify throws a
\* TypeError on a circular structure and JSON.parse a SyntaxError on the
\* text "undefined"
cloneObject(v) ==
    IF HasCircular(v) THEN [ok |-> FALSE, v |-> Undefined, err |-> "TypeError"]
    ELSE With(JSONparse(TextOf(JSONstringify(v))), LAMBDA parsed :
             [ok |-> parsed.ok, v |-> parsed.v,
              err |-> IF parsed.ok THEN "none" ELSE "SyntaxError"])

\* helpers.ts isEqual on trees
isEqual(a, b) == JSONstringify(a) = JSONstringify(b)

\* ------------------------------------------------------------------------
\* The heap: a sequence of objects; object r is heap[r].  An object is a
\* record [t, n, kids] with t "object" or "array" and heap values as kids.
\* ------------------------------------------------------------------------

\* the tree a heap value stands for; path holds the objects being followed,
\* and meeting one of them again is a circle
RECURSIVE DerefWithin(_, _, _)
DerefWithin(h, hv, path) ==
    IF hv.t # "ref" THEN hv
    ELSE IF hv.n \in path THEN Circular
    ELSE [t |-> h[hv.n].t, n |-> 0,
          kids |-> [i \in 1..Len(h[hv.n].kids) |->
                       <<h[hv.n].kids[i][1],
                         DerefWithin(h, h[hv.n].kids[i][2], path \cup {hv.n})>>]]

Deref(h, hv) == DerefWithin(h, hv, {})

\* a tree built from fresh objects: [h, v]
RECURSIVE Alloc(_, _), AllocKids(_, _, _)
Alloc(h, v) ==
    IF ~IsContainer(v) THEN [h |-> h, v |-> v]
    ELSE LET r == Len(h) + 1
             k == AllocKids(Append(h, [t |-> v.t, n |-> 0, kids |-> <<>>]), v.kids, <<>>)
         IN [h |-> [k.h EXCEPT ![r].kids = k.kids], v |-> Ref(r)]

AllocKids(h, kids, acc) ==
    IF kids = <<>> THEN [h |-> h, kids |-> acc]
    ELSE LET a == Alloc(h, Head(kids)[2])
         IN AllocKids(a.h, Tail(kids), Append(acc, <<Head(kids)[1], a.v>>))

SeqRange(s) == {s[i] : i \in 1..Len(s)}

KidValues(kids) == [i \in 1..Len(kids) |-> kids[i][2]]

\* the addresses reachable from the heap values of todo, in visiting order
RECURSIVE Reach(_, _, _)
Reach(h, todo, seen) ==
    IF todo = <<>> THEN seen
    ELSE IF Head(todo).t # "ref" \/ Head(todo).n \in SeqRange(seen)
    THEN Reach(h, Tail(todo), seen)
    ELSE Reach(h, KidValues(h[Head(todo).n].kids) \o Tail(todo), Append(seen, Head(todo).n))

ReachSet(h, hv) == SeqRange(Reach(h, <<hv>>, <<>>))

\* helpers.ts isObject on a heap value
isObject(h, hv) == hv.t = "ref" /\ h[hv.n].t = "object"

\* helpers.ts cloneObject on a heap value: [ok, h, v], the clone made of
\* fresh objects
cloneRef(h, hv) ==
    With(cloneObject(Deref(h, hv)), LAMBDA c :
        IF c.ok
        THEN With(Alloc(h, c.v), LAMBDA fresh :
                 [ok |-> TRUE, h |-> fresh.h, v |-> fresh.v, err |-> "none"])
        ELSE [ok |-> FALSE, h |-> h, v |-> Undefined, err |-> c.err])

\* ------------------------------------------------------------------------
\* Inputs
\* ------------------------------------------------------------------------

\* a property of the props object that the caller left out
Omitted == "<omitted>"

\* a name argument that is no string (a number, null, undefined)
NotAString == "<not a string>"

StoreNames == {"appState", "cart"}

A1 == Obj(<< <<"a", Num(1)>> >>)

B2 == Obj(<< <<"b", Num(2)>> >>)

XA == Obj(<< <<"x", A1>> >>)

YXB == Obj(<< <<"y", Num(1)>>, <<"x", B2>> >>)

OneItem == Arr(<< <<"0", Num(1)>> >>)

\* The inputs the caller draws from:
\*   props    [storeName, replace] of a construction (Omitted: left out)
\*   updates  [slice, replace] of a setState (Omitted: left out)
\*   wholes   initialState of a construction, value of a setState without
\*            a slice
\*   slots    name of a createSlice
\*   parts    value of a setState with a slice, initialState of a
\*            createSlice (Undefined: left out)
\*   fails    whether localStorage.setItem throws in the call
\*   reuse    whether the caller may pass the object it passed before
MainInputs ==
    [props |-> {[storeName |-> Omitted, replace |-> Omitted],
                [storeName |-> "appState", replace |-> "true"],
                [storeName |-> "cart", replace |-> "false"],
                [storeName |-> "cart", replace |-> "true"]},
     updates |-> {[slice |-> Omitted, replace |-> Omitted],
                  [slice |-> Omitted, replace |-> "false"],
                  [slice |-> Omitted, replace |-> "true"],
                  [slice |-> "", replace |-> Omitted],
                  [slice |-> "x", replace |-> Omitted],
                  [slice |-> "x", replace |-> "true"],
                  [slice |-> "y", replace |-> "false"]},
     wholes |-> {Obj(<<>>), XA, YXB, Null, Num(1), OneItem},
     slots |-> {"", "x", "y", NotAString},
     parts |-> {Undefined, Null, A1, B2},
     fails |-> {FALSE},
     reuse |-> TRUE]

\* `if (slice)`: undefined and the empty string are falsy
Truthy(slice) == slice # Omitted /\ slice # ""

isString_Any(name) == TRUE

\* helpers.ts isString
isString(name) == name # NotAString

\* ------------------------------------------------------------------------
\* The world an operation runs in, and the operations of Store and PubSub
\* as functions from world to world.  A world w has
\*   heap          the objects
\*   stores        the Store instances, stores[i] =
\*                   [storeName, internalState, callbackList]
\*   registry      Store.storeRegistry: name -> instance, 0 for none
\*   localStorage  name -> [has, text]
\*   window        whether window.localStorage exists
\*   timers        the callbacks queued by setTimeout(.., 0): instances
\*   invoked       the subscriber callbacks run so far: <<callback, value>>
\*   reads, writes the getItem and setItem calls of the running operation
\*   events        what the running operation did so far, in order: "mutate"
\*                 (the internal state written), "setTimeout" (a publish
\*                 queued), "publish" (PubSub.publish run), "setItem",
\*                 "setItem throws", "getItem"
\* An operation gives [w, err, ret]: err is "none" or the error thrown.
\* ------------------------------------------------------------------------

NoItem == [has |-> FALSE, text |-> <<>>]

Item(text) == [has |-> TRUE, text |-> text]

Thrown(w, err) == [w |-> w, err |-> err, ret |-> Undefined]

Returned(w, ret) == [w |-> w, err |-> "none", ret |-> ret]

\* store.ts 186-188: get state()
getState(w, i) == cloneRef(w.heap, w.stores[i].internalState)

\* the whole state of instance i as a tree, as the getter shows it
StateTree(h, st, i) == cloneObject(Deref(h, st[i].internalState)).v

SaveFailed_Swallowed(w) == Returned(w, Undefined)

\* store.ts 158-161: the catch logs the error and throws it again
SaveFailed(w) == Thrown(w, "PersistenceFailure")

\* store.ts 151-162: saveStateToLocalStorage; setFails: setItem throws
saveStateToLocalStorage(w, i, setFails) ==
    IF ~w.window THEN Returned(w, Undefined)
    ELSE With(getState(w, i), LAMBDA g :
             IF ~g.ok THEN SaveFailed(w)
             ELSE IF setFails
             THEN SaveFailed([w EXCEPT !.events = Append(@, "setItem throws")])
             ELSE With(JSONstringify(Deref(g.h, g.v)), LAMBDA stateToSave :
                      Returned([w EXCEPT !.localStorage[w.stores[i].storeName] =
                                             Item(TextOf(stateToSave)),
                                         !.writes = @ + 1,
                                         !.events = Append(@, "setItem")], Undefined)))

LoadedState_Empty(parsed) == Obj(<<>>)

\* store.ts 170-177: the state after the try: what JSON.parse gave, or {}
\* when JSON.parse threw
LoadedState(parsed) == IF parsed.ok THEN parsed.v ELSE Obj(<<>>)

\* store.ts 164-179: loadStateFromLocalStorage
loadStateFromLocalStorage(w, i) ==
    IF ~w.window THEN w
    ELSE With(w.localStorage[w.stores[i].storeName], LAMBDA savedState :
             IF savedState.has /\ savedState.text # <<>>
             THEN With(JSONparse(savedState.text), LAMBDA parsed :
                  With(Alloc(w.heap, LoadedState(parsed)),
                       LAMBDA loaded :
                           [w EXCEPT !.reads = @ + 1, !.events = Append(@, "getItem"),
                                     !.heap = loaded.h,
                                     !.stores[i].internalState = loaded.v]))
             ELSE [w EXCEPT !.reads = @ + 1, !.events = Append(@, "getItem")])

\* a selector (the config of a subscription) applied to a snapshot
Select(config, snapshot) ==
    CASE config = "whole" -> snapshot
      [] config = "sliceX" ->
            IF IsContainer(snapshot) THEN GetKey(snapshot.kids, "x") ELSE Undefined
      [] OTHER -> Undefined

RECURSIVE Notify_Ungated(_, _, _, _)
Notify_Ungated(list, currentState, nextState, invoked) ==
    IF list = <<>> THEN invoked
    ELSE Notify_Ungated(Tail(list), currentState, nextState,
                        Append(invoked, <<Head(list).callback,
                                          Select(Head(list).config, nextState)>>))

\* store.ts 275-281: the forEach of publish over the callback list
RECURSIVE Notify(_, _, _, _)
Notify(list, currentState, nextState, invoked) ==
    IF list = <<>> THEN invoked
    ELSE LET currentValue == Select(Head(list).config, currentState)
             nextValue == Select(Head(list).config, nextState)
         IN Notify(Tail(list), currentState, nextState,
                   IF ~isEqual(currentValue, nextValue)
                   THEN Append(invoked, <<Head(list).callback, nextValue>>)
                   ELSE invoked)

\* store.ts 268-282: PubSub.publish on the callback list of instance i
publish(w, i, currentState, nextState) ==
    IF currentState.t # "object" \/ nextState.t # "object" THEN Thrown(w, "Error")
    ELSE Returned([w EXCEPT !.invoked =
                      Notify(w.stores[i].callbackList, currentState, nextState, @),
                             !.events = Append(@, "publish"),
                             !.seen = nextState],
                  Undefined)

publishState_FromEmpty(w, i) ==
    With(getState(w, i), LAMBDA nxt :
        IF ~nxt.ok THEN Thrown(w, nxt.err)
        ELSE publish([w EXCEPT !.heap = nxt.h], i, Obj(<<>>), Deref(nxt.h, nxt.v)))

\* store.ts 228 and 248: this._pubSub.publish(this.state, this.state)
publishState(w, i) ==
    With(getState(w, i), LAMBDA cur :
        IF ~cur.ok THEN Thrown(w, cur.err)
        ELSE With(getState([w EXCEPT !.heap = cur.h], i), LAMBDA nxt :
                 IF ~nxt.ok THEN Thrown(w, nxt.err)
                 ELSE publish([w EXCEPT !.heap = nxt.h], i,
                              Deref(cur.h, cur.v), Deref(nxt.h, nxt.v))))

\* Object.assign(target, source) on trees, for a target that is not null
ObjectAssign(target, source) ==
    IF IsContainer(target)
    THEN [target EXCEPT !.kids = SpreadInto(@, IF IsContainer(source) THEN source.kids
                                                                  ELSE <<>>)]
    ELSE target

\* store.ts 214-218: what the slice branch stores: the clone of value, the
\* merged nextState being left unused
SliceStored(nextState, value) == value

\* store.ts 207-219: the slice branch of setState
setStateSlice(w, i, slice, value) ==
    With(cloneObject(Deref(w.heap, w.stores[i].internalState)), LAMBDA whole :
    IF ~whole.ok THEN Thrown(w, whole.err)
    ELSE IF whole.v.t = "null" THEN Thrown(w, "TypeError")
    ELSE With(IF IsContainer(whole.v) THEN GetKey(whole.v.kids, slice) ELSE Undefined,
              LAMBDA currentState :
         With(cloneObject(currentState), LAMBDA c1 :
         With(cloneObject(Deref(w.heap, value)), LAMBDA c2 :
         IF ~c1.ok THEN Thrown(w, c1.err)
         ELSE IF ~c2.ok THEN Thrown(w, c2.err)
         ELSE IF c1.v.t = "null" THEN Thrown(w, "TypeError")
         ELSE IF w.stores[i].internalState.t # "ref" THEN Thrown(w, "TypeError")
         ELSE With(ObjectAssign(c1.v, c2.v), LAMBDA nextState :
              With(Alloc(w.heap, SliceStored(nextState, c2.v)), LAMBDA stored :
                  Returned([w EXCEPT !.heap =
                               [stored.h EXCEPT ![w.stores[i].internalState.n].kids =
                                   SetKey(@, slice, stored.v)],
                                     !.events = Append(@, "mutate")],
                           Undefined)))))))

\* the own enumerable properties a spread copies: none for a primitive
OwnProps(h, hv) == IF hv.t = "ref" THEN h[hv.n].kids ELSE <<>>

MergedProps_PrevWins(prev, value) == SpreadInto(SpreadInto(<<>>, value), prev)

\* store.ts 224: { ...this._internalState, ...value }
MergedProps(prev, value) == SpreadInto(SpreadInto(<<>>, prev), value)

ReplaceBranch_Never(slice, replace) == FALSE

\* store.ts 220: else if (!slice && replace && replace === true)
ReplaceBranch(slice, replace) == ~Truthy(slice) /\ replace = "true"

\* store.ts 220-225: the two whole-state branches of setState
setStateWhole(w, i, slice, value, replace) ==
    IF ReplaceBranch(slice, replace)
    THEN Returned([w EXCEPT !.stores[i].internalState = value,
                            !.events = Append(@, "mutate")], Undefined)
    ELSE LET merged == Obj(MergedProps(OwnProps(w.heap, w.stores[i].internalState),
                                       OwnProps(w.heap, value)))
         IN Returned([w EXCEPT !.heap = Append(@, merged),
                               !.stores[i].internalState = Ref(Len(w.heap) + 1),
                               !.events = Append(@, "mutate")],
                     Undefined)

\* the `return this.state` that ends setState and createSlice
returnState(w, i) ==
    With(getState(w, i), LAMBDA g :
        IF ~g.ok THEN Thrown(w, g.err)
        ELSE Returned([w EXCEPT !.heap = g.h], g.v))

Deferred_RunAtOnce(w, i) == publishState(w, i).w

Deferred_Lost(w, i) == [w EXCEPT !.events = Append(@, "setTimeout")]

\* store.ts 227-229: setTimeout(() => publish, 0) queues the publish
Deferred(w, i) ==
    [w EXCEPT !.timers = Append(@, i), !.events = Append(@, "setTimeout")]

\* store.ts 200-232: the body of setState
setState(w, i, slice, value, replace, setFails) ==
    IF ~Truthy(slice) /\ ~isObject(w.heap, value) THEN Thrown(w, "InvalidArgument")
    ELSE With(IF Truthy(slice) THEN setStateSlice(w, i, slice, value)
              ELSE setStateWhole(w, i, slice, value, replace),
              LAMBDA m :
         IF m.err # "none" THEN Thrown(w, m.err)
         ELSE With(saveStateToLocalStorage(Deferred(m.w, i), i, setFails),
                   LAMBDA saved :
                       IF saved.err # "none"
                       THEN Thrown(saved.w, saved.err)
                       ELSE returnState(saved.w, i)))

OrEmpty_AsGiven(h, initialState) == [h |-> h, v |-> initialState]

\* store.ts 247: initialState ?? {}
OrEmpty(h, initialState) ==
    IF initialState.t \in {"undefined", "null"}
    THEN [h |-> Append(h, Obj(<<>>)), v |-> Ref(Len(h) + 1)]
    ELSE [h |-> h, v |-> initialState]

\* store.ts 241-251: createSlice
createSlice(w, i, name, initialState, setFails) ==
    IF ~isString(name) THEN Thrown(w, "InvalidArgument")
    ELSE IF w.stores[i].internalState.t # "ref" THEN Thrown(w, "TypeError")
    ELSE With(OrEmpty(w.heap, initialState), LAMBDA val :
         With(publishState(
                  [w EXCEPT !.heap = [val.h EXCEPT ![w.stores[i].internalState.n].kids =
                                         SetKey(@, name, val.v)],
                            !.events = Append(@, "mutate")], i),
              LAMBDA pub :
         IF pub.err # "none" THEN Thrown(pub.w, pub.err)
         ELSE With(saveStateToLocalStorage(pub.w, i, setFails), LAMBDA saved :
                  IF saved.err # "none"
                  THEN Thrown(saved.w, saved.err)
                  ELSE returnState(saved.w, i))))

\* the props of `new Store()`: the default parameter of the constructor
NoProps == [given |-> FALSE, storeName |-> Omitted, replace |-> Omitted]

GivenProps(storeName, replace) ==
    [given |-> TRUE, storeName |-> storeName, replace |-> replace]

\* store.ts 129: the default props carry the name "appState" and replace false
PropsOrDefault(props) ==
    IF props.given THEN props
    ELSE [given |-> TRUE, storeName |-> "appState", replace |-> "false"]

\* store.ts 134: storeName ?? "appState"
NameOrDefault(storeName) == IF storeName = Omitted THEN "appState" ELSE storeName

Constructed_This(this, existingStore) == this

\* store.ts 144: return existingStore
Constructed(this, existingStore) == existingStore

CollisionReplace_Dropped(replace) == Omitted

\* store.ts 143: the replace of the props is handed on to setState
CollisionReplace(replace) == replace

ExistingStore_None(registry, name) == 0

\* store.ts 136: Store.storeRegistry[this._storeName]; 0 for undefined
ExistingStore(registry, name) == registry[name]

\* store.ts 129-149: the constructor; gives [w, err, inst]
construct(w, props, initialState, setFails) ==
    LET p == PropsOrDefault(props)
        name == NameOrDefault(p.storeName)
        existingStore == ExistingStore(w.registry, name)
        this == Len(w.stores) + 1
    IN IF ~isObject(w.heap, initialState)
       THEN [w |-> w, err |-> "InvalidArgument", inst |-> 0]
       ELSE With(cloneRef(w.heap, initialState), LAMBDA c :
            IF ~c.ok THEN [w |-> w, err |-> c.err, inst |-> 0]
            ELSE With([w EXCEPT !.heap = c.h,
                                !.stores = Append(@, [storeName |-> name,
                                                      internalState |-> c.v,
                                                      callbackList |-> <<>>])],
                      LAMBDA made :
                 IF existingStore # 0
                 THEN With(setState(made, existingStore, Omitted, initialState,
                                    CollisionReplace(p.replace), setFails),
                           LAMBDA updated :
                               [w |-> updated.w, err |-> "none",
                                inst |-> Constructed(this, existingStore)])
                 ELSE [w |-> loadStateFromLocalStorage(
                                 [made EXCEPT !.registry[name] = this], this),
                       err |-> "none", inst |-> this]))

\* ------------------------------------------------------------------------
\* The state of the process
\* ------------------------------------------------------------------------

VARIABLES
    heap,          \* the objects
    stores,        \* the Store instances
    registry,      \* Store.storeRegistry
    localStorage,  \* the browser's store, by key
    window,        \* whether window.localStorage exists
    timers,        \* callbacks queued by setTimeout(.., 0)
    invoked,       \* subscriber callbacks run so far
    promises,      \* settled promises of setState the caller awaits
    held,          \* what the caller keeps: the last object it passed in
                   \* (arg) and the last object it got back (ret)
    handles,       \* the Store references the caller got: <<name, instance>>
    unsubs,        \* the unsubscribe functions the caller got
    last,          \* the operation that made this state, as the caller saw it
    calls          \* calls made so far

vars == <<heap, stores, registry, localStorage, window, timers, invoked, promises,
          held, handles, unsubs, last, calls>>

\* the subscription list of one store is kept this short
MaxSubs == 1

Callbacks == {"cb1", "cb2"}

Configs == {"whole", "sliceX"}

\* what may lie under "appState" in localStorage when the process starts
InitialBlobs ==
    { NoItem,
      Item(<<>>),
      Item(Serialize(Obj(<< <<"x", B2>> >>))),
      Item(<< Punct("{") >>),
      Item(<< LitTok("null") >>),
      Item(<< NumTok(1) >>),
      Item(Serialize(OneItem)) }

NoCall ==
    [op |-> "none", inst |-> 0, key |-> Omitted, value |-> Undefined, replace |-> Omitted,
     err |-> "none", how |-> "returned", pre |-> Undefined, reads |-> 0, writes |-> 0,
     events |-> <<>>]

\* the state when the process starts, with one of blobs under "appState"
InitOn(blobs) ==
    /\ heap = <<>>
    /\ stores = <<>>
    /\ registry = [n \in StoreNames |-> 0]
    /\ window \in BOOLEAN
    /\ \E blob \in blobs :
          /\ (~window => blob = NoItem)
          /\ localStorage = [n \in StoreNames |-> IF n = "appState" THEN blob ELSE NoItem]
    /\ timers = <<>>
    /\ invoked = <<>>
    /\ promises = <<>>
    /\ held = [arg |-> Undefined, ret |-> Undefined]
    /\ handles = {}
    /\ unsubs = {}
    /\ last = NoCall
    /\ calls = 0

Init == InitOn({NoItem})

\* the world of the current state, after the caller built its argument
World(h) ==
    [heap |-> h, stores |-> stores, registry |-> registry, localStorage |-> localStorage,
     window |-> window, timers |-> timers, invoked |-> invoked, reads |-> 0, writes |-> 0,
     events |-> <<>>, seen |-> Undefined]

\* the caller's argument: a fresh object built from a tree, or the object
\* it passed last time
ArgSources(trees, reuse) ==
    {[fresh |-> TRUE, tree |-> v] : v \in trees}
    \cup (IF reuse /\ held.arg.t = "ref" THEN {[fresh |-> FALSE, tree |-> Undefined]}
          ELSE {})

PassArg(src) ==
    IF src.fresh THEN Alloc(heap, src.tree) ELSE [h |-> heap, v |-> held.arg]

\* the instances still referenced: garbage is what nobody can reach
LiveStores(st, reg, hs) ==
    IF Len(st) > 0 /\ (\A n \in StoreNames : reg[n] # Len(st))
                   /\ (\A hd \in hs : hd[2] # Len(st))
    THEN SubSeq(st, 1, Len(st) - 1)
    ELSE st

Roots(st, hd) == [i \in 1..Len(st) |-> st[i].internalState] \o <<hd.arg, hd.ret>>

PosIn(order, r) == CHOOSE j \in 1..Len(order) : order[j] = r

Renamed(order, hv) == IF hv.t = "ref" THEN Ref(PosIn(order, hv.n)) ELSE hv

CompactHeap(h, order) ==
    [j \in 1..Len(order) |->
        [h[order[j]] EXCEPT !.kids =
            [k \in 1..Len(@) |-> <<@[k][1], Renamed(order, @[k][2])>>]]]

\* the next state from the world an operation left: unreachable objects
\* and instances are dropped and the objects numbered in visiting order
Commit(w, hd, hs) ==
    \E st \in {LiveStores(w.stores, w.registry, hs)} :
    \E order \in {Reach(w.heap, Roots(st, hd), <<>>)} :
       /\ heap' = CompactHeap(w.heap, order)
       /\ stores' = [i \in 1..Len(st) |->
                        [st[i] EXCEPT !.internalState = Renamed(order, @)]]
       /\ held' = [arg |-> Renamed(order, hd.arg), ret |-> Renamed(order, hd.ret)]
       /\ registry' = w.registry
       /\ localStorage' = w.localStorage
       /\ timers' = w.timers
       /\ invoked' = w.invoked
       /\ handles' = hs
       /\ UNCHANGED window

Delivery_AllAsync(op, err) == "promise"

\* how the caller gets the outcome of a call: setState is an async method
\* (store.ts 200), so its result and its errors come through the promise
\* it returns; the constructor (129) and createSlice (241) return or throw
Delivery(op, err) ==
    IF op = "setState" THEN "promise"
    ELSE IF err = "none" THEN "returned" ELSE "thrown"

\* the state of instance i in the current state, as a tree
Shown(i) == StateTree(heap, stores, i)

\* new Store(props) with props.initialState built from src; `new Store()`
\* when props is NoProps
Construct(props, src, setFails) ==
    /\ calls < MaxCalls
    /\ \E a \in {IF props.given THEN PassArg(src) ELSE Alloc(heap, Obj(<<>>))} :
       \E r \in {construct(World(a.h), props, a.v, setFails)} :
       LET existing == registry[NameOrDefault(PropsOrDefault(props).storeName)]
       IN /\ Commit(r.w,
                    [arg |-> IF props.given THEN a.v ELSE held.arg, ret |-> held.ret],
                    IF r.err = "none"
                    THEN handles \cup {<<NameOrDefault(PropsOrDefault(props).storeName),
                                         r.inst>>}
                    ELSE handles)
          /\ last' = [op |-> "new", inst |-> r.inst, key |-> props.storeName,
                      value |-> Deref(a.h, a.v), replace |-> props.replace,
                      err |-> r.err, how |-> Delivery("new", r.err),
                      pre |-> IF existing # 0 THEN Shown(existing) ELSE Undefined,
                      reads |-> r.w.reads, writes |-> r.w.writes,
                      events |-> r.w.events]
          /\ promises' = IF Delivery("new", r.err) = "promise"
                         THEN Append(promises, r.err) ELSE promises
    /\ calls' = calls + 1
    /\ UNCHANGED unsubs

\* store.setState({slice, value, replace}) through a reference the caller has
SetState(hd, slice, src, replace, setFails) ==
    /\ calls < MaxCalls
    /\ \E a \in {PassArg(src)} :
       \E r \in {setState(World(a.h), hd[2], slice, a.v, replace, setFails)} :
          /\ Commit(r.w, [arg |-> a.v, ret |-> r.ret], handles)
          /\ last' = [op |-> "setState", inst |-> hd[2], key |-> slice,
                      value |-> Deref(a.h, a.v), replace |-> replace,
                      err |-> r.err, how |-> Delivery("setState", r.err),
                      pre |-> Shown(hd[2]),
                      reads |-> r.w.reads, writes |-> r.w.writes,
                      events |-> r.w.events]
          /\ promises' = IF Delivery("setState", r.err) = "promise"
                         THEN Append(promises, r.err) ELSE promises
    /\ calls' = calls + 1
    /\ UNCHANGED unsubs

\* store.createSlice({name, initialState}) through a reference the caller has
CreateSlice(hd, name, src, setFails) ==
    /\ calls < MaxCalls
    /\ \E a \in {PassArg(src)} :
       \E r \in {createSlice(World(a.h), hd[2], name, a.v, setFails)} :
          /\ Commit(r.w, [arg |-> a.v, ret |-> r.ret], handles)
          /\ last' = [op |-> "createSlice", inst |-> hd[2], key |-> name,
                      value |-> Deref(a.h, a.v), replace |-> Omitted,
                      err |-> r.err, how |-> Delivery("createSlice", r.err),
                      pre |-> Shown(hd[2]),
                      reads |-> r.w.reads, writes |-> r.w.writes,
                      events |-> r.w.events]
          /\ promises' = IF Delivery("createSlice", r.err) = "promise"
                         THEN Append(promises, r.err) ELSE promises
    /\ calls' = calls + 1
    /\ UNCHANGED unsubs

\* store.state through a reference the caller has
ReadState(hd) ==
    /\ calls < MaxCalls
    /\ \E g \in {getState(World(heap), hd[2])} :
          /\ Commit([World(heap) EXCEPT !.heap = g.h], [arg |-> held.arg, ret |-> g.v],
                    handles)
          /\ last' = [NoCall EXCEPT !.op = "state", !.inst = hd[2], !.pre = Shown(hd[2])]
    /\ calls' = calls + 1
    /\ UNCHANGED <<promises, unsubs>>

\* the caller's `await` of the oldest promise: a microtask
Await ==
    /\ promises # <<>>
    /\ promises' = Tail(promises)
    /\ last' = [NoCall EXCEPT !.op = "await", !.err = Head(promises), !.how = "promise"]
    /\ UNCHANGED <<heap, stores, registry, localStorage, window, timers, invoked, held,
                   handles, unsubs, calls>>

\* store.ts 227-229: the callback of setTimeout runs, once no microtask is
\* left; what publish throws is nobody's to catch
TimerFire ==
    /\ timers # <<>>
    /\ promises = <<>>
    /\ \E r \in {publishState(World(heap), Head(timers))} :
          /\ Commit([r.w EXCEPT !.timers = Tail(timers)], held, handles)
          /\ last' = [NoCall EXCEPT !.op = "timer", !.inst = Head(timers),
                                    !.value = r.w.seen,
                                    !.err = r.err, !.events = r.w.events]
    /\ UNCHANGED <<promises, unsubs, calls>>

\* store.ts 284-299: subscribe(callback, config), reached through the
\* private method of Store (253-255)
SubscribeWithin(maxCalls, maxSubs, hd, callback, config) ==
    /\ calls < maxCalls
    /\ Len(stores[hd[2]].callbackList) < maxSubs
    /\ stores' = [stores EXCEPT ![hd[2]].callbackList =
                     Append(@, [callback |-> callback, config |-> config])]
    /\ unsubs' = unsubs \cup {<<hd[2], callback>>}
    /\ last' = [NoCall EXCEPT !.op = "subscribe", !.inst = hd[2], !.key = callback]
    /\ calls' = calls + 1
    /\ UNCHANGED <<heap, registry, localStorage, window, timers, invoked, promises, held,
                   handles>>

Subscribe(hd, callback, config) == SubscribeWithin(MaxCalls, MaxSubs, hd, callback, config)

KeepOthers_FirstOnly(list, callback) ==
    LET hits == {k \in 1..Len(list) : list[k].callback = callback}
    IN IF hits = {} THEN list
       ELSE LET first == CHOOSE k \in hits : \A m \in hits : k <= m
            IN SubSeq(list, 1, first - 1) \o SubSeq(list, first + 1, Len(list))

KeepOthers(list, callback) == SelectSeq(list, LAMBDA item : item.callback # callback)

\* store.ts 296-298: the unsubscribe function subscribe returned
UnsubscribeWithin(maxCalls, u) ==
    /\ calls < maxCalls
    /\ stores' = [stores EXCEPT ![u[1]].callbackList = KeepOthers(@, u[2])]
    /\ last' = [NoCall EXCEPT !.op = "unsubscribe", !.inst = u[1], !.key = u[2]]
    /\ calls' = calls + 1
    /\ UNCHANGED <<heap, registry, localStorage, window, timers, invoked, promises, held,
                   handles, unsubs>>

Unsubscribe(u) == UnsubscribeWithin(MaxCalls, u)

\* the objects the caller can reach from what it holds
HeldObjects == SeqRange(Reach(heap, <<held.arg, held.ret>>, <<>>))

\* the caller writes a property of an object it holds: obj.x = 7
CallerMutate(r) ==
    /\ calls < MaxCalls
    /\ heap[r].t = "object"
    /\ heap' = [heap EXCEPT ![r].kids = SetKey(@, "x", Num(7))]
    /\ last' = [NoCall EXCEPT !.op = "mutate"]
    /\ calls' = calls + 1
    /\ UNCHANGED <<stores, registry, localStorage, window, timers, invoked, promises,
                   held, handles, unsubs>>

\* every step the process can take, the caller drawing its inputs from P
NextOn(P) ==
    \/ \E setFails \in P.fails :
          \/ Construct(NoProps, [fresh |-> TRUE, tree |-> Undefined], setFails)
          \/ \E pr \in P.props, src \in ArgSources(P.wholes, P.reuse) :
                Construct(GivenProps(pr.storeName, pr.replace), src, setFails)
    \/ \E hd \in handles, up \in P.updates, setFails \in P.fails,
          src \in ArgSources(P.wholes \cup P.parts, P.reuse) :
          /\ src.fresh /\ Truthy(up.slice) => src.tree \in P.parts
          /\ src.fresh /\ ~Truthy(up.slice) => src.tree \in P.wholes
          /\ SetState(hd, up.slice, src, up.replace, setFails)
    \/ \E hd \in handles, name \in P.slots, src \in ArgSources(P.parts, P.reuse),
          setFails \in P.fails :
          CreateSlice(hd, name, src, setFails)
    \/ \E hd \in handles : ReadState(hd)
    \/ Await
    \/ TimerFire
    \/ \E hd \in handles, cb \in Callbacks, cfg \in Configs : Subscribe(hd, cb, cfg)
    \/ \E u \in unsubs : Unsubscribe(u)
    \/ \E r \in HeldObjects : CallerMutate(r)

Next == NextOn(MainInputs)

Spec == Init /\ [][Next]_vars

\* when TimerFire can be taken: its guard; the publish and the commit that
\* follow the guard are total, and the step always shortens timers
TimerEnabled == timers # <<>> /\ promises = <<>>

\* the event loop: a settled promise's continuation runs (a microtask), and
\* a callback queued by setTimeout(.., 0) runs once no microtask is left.
\* The second conjunct is WF_vars(TimerFire) written out, with TimerEnabled
\* for ENABLED <<TimerFire>>_vars.
SpecFair ==
    /\ Spec
    /\ WF_vars(Await)
    /\ ([]<>(~TimerEnabled) \/ []<><<TimerFire>>_vars)

\* ------------------------------------------------------------------------
\* The notifier on its own: publish, subscribe and unsubscribe of PubSub,
\* called with any snapshots on any callback list
\* ------------------------------------------------------------------------

\* a callback list is kept this short
MaxEntries == 3

\* calls made on the notifier once its first subscriptions are in place
MaxNotifierCalls == 3

CallbackLists ==
    UNION {[1..n -> [callback : Callbacks, config : Configs]] : n \in 0..MaxEntries}

XAY == Obj(<< <<"x", A1>>, <<"y", Num(1)>> >>)

\* what publish is given as currentState and nextState
NotifierSnapshots == {Obj(<<>>), XA, XAY, Null, OneItem}

\* a store with an empty state, constructed where there is no localStorage,
\* after the subscriptions of some callback list; the caller holds the
\* unsubscribe function of each
InitNotifier ==
    /\ heap = <<[t |-> "object", n |-> 0, kids |-> <<>>]>>
    /\ \E list \in CallbackLists :
          /\ stores = <<[storeName |-> "appState", internalState |-> Ref(1),
                         callbackList |-> list]>>
          /\ unsubs = {<<1, list[k].callback>> : k \in 1..Len(list)}
    /\ registry = [n \in StoreNames |-> IF n = "appState" THEN 1 ELSE 0]
    /\ window = FALSE
    /\ localStorage = [n \in StoreNames |-> NoItem]
    /\ timers = <<>>
    /\ invoked = <<>>
    /\ promises = <<>>
    /\ held = [arg |-> Undefined, ret |-> Undefined]
    /\ handles = {<<"appState", 1>>}
    /\ last = NoCall
    /\ calls = 0

\* store.ts 268-282: publish(currentState, nextState) on the notifier of a store
Publish(hd, currentState, nextState) ==
    /\ calls < MaxNotifierCalls
    /\ \E r \in {publish(World(heap), hd[2], currentState, nextState)} :
          /\ invoked' = r.w.invoked
          /\ last' = [NoCall EXCEPT !.op = "publish", !.inst = hd[2],
                                    !.pre = currentState, !.value = nextState,
                                    !.err = r.err,
                                    !.how = IF r.err = "none" THEN "returned" ELSE "thrown",
                                    !.events = r.w.events]
    /\ calls' = calls + 1
    /\ UNCHANGED <<heap, stores, registry, localStorage, window, timers, promises, held,
                   handles, unsubs>>

NextNotifier ==
    \/ \E hd \in handles, currentState \in NotifierSnapshots,
          nextState \in NotifierSnapshots : Publish(hd, currentState, nextState)
    \/ \E hd \in handles, cb \in Callbacks, cfg \in Configs :
          SubscribeWithin(MaxNotifierCalls, MaxEntries, hd, cb, cfg)
    \/ \E u \in unsubs : UnsubscribeWithin(MaxNotifierCalls, u)

SpecNotifier == InitNotifier /\ [][NextNotifier]_vars

\* the notifier as the Store drives it as well: a setState queues a publish
\* (store.ts 227-229) that runs after later subscribes and unsubscribes
NextUnsubscribe ==
    \/ NextNotifier
    \/ \E hd \in handles :
          SetState(hd, Omitted, [fresh |-> TRUE, tree |-> XA], Omitted, FALSE)
    \/ Await
    \/ TimerFire

SpecUnsubscribe == InitNotifier /\ [][NextUnsubscribe]_vars

\* ------------------------------------------------------------------------
\* The store with its persistence backend: localStorage may hold anything
\* under "appState" when the process starts, setItem may throw, and the
\* page may be loaded anew
\* ------------------------------------------------------------------------

PersistInputs ==
    [props |-> {[storeName |-> "appState", replace |-> Omitted],
                [storeName |-> "cart", replace |-> "true"]},
     updates |-> {[slice |-> Omitted, replace |-> Omitted],
                  [slice |-> Omitted, replace |-> "true"],
                  [slice |-> "x", replace |-> Omitted]},
     wholes |-> {XA, YXB},
     slots |-> {"x", "y"},
     parts |-> {Undefined, A1},
     fails |-> BOOLEAN,
     reuse |-> FALSE]

InitPersist == InitOn(InitialBlobs)

\* store.ts 122: a new process starts with an empty registry and no Store;
\* what localStorage holds stays
Restart ==
    /\ stores # <<>>
    /\ heap' = <<>>
    /\ stores' = <<>>
    /\ registry' = [n \in StoreNames |-> 0]
    /\ timers' = <<>>
    /\ invoked' = <<>>
    /\ promises' = <<>>
    /\ held' = [arg |-> Undefined, ret |-> Undefined]
    /\ handles' = {}
    /\ unsubs' = {}
    /\ last' = [NoCall EXCEPT !.op = "restart"]
    /\ UNCHANGED <<localStorage, window, calls>>

NextPersist == NextOn(PersistInputs) \/ Restart

SpecPersist == InitPersist /\ [][NextPersist]_vars

\* ------------------------------------------------------------------------
\* The claims
\* ------------------------------------------------------------------------

KeysOf(v) == {v.kids[i][1] : i \in 1..Len(v.kids)}

At(v, k) == GetKey(v.kids, k)

\* a value JSON can carry: no undefined, no circle
Serializable(v) == v.t # "undefined" /\ ~HasCircular(v)

\* now is the shallow union of p and v, the keys of v winning
IsShallowUnion(now, p, v) ==
    /\ now.t = "object"
    /\ KeysOf(now) = KeysOf(p) \cup KeysOf(v)
    /\ \A k \in KeysOf(v) : At(now, k) = At(v, k)
    /\ \A k \in KeysOf(p) \ KeysOf(v) : At(now, k) = At(p, k)

\* now is v and nothing else
IsExactly(now, v) ==
    /\ now.t = "object"
    /\ KeysOf(now) = KeysOf(v)
    /\ \A k \in KeysOf(v) : At(now, k) = At(v, k)

\* the last step was a setState that was given a slice name
SliceUpdate == last.op = "setState" /\ last.key # Omitted

\* the last step was a setState without a slice, given a plain mapping
WholeUpdate ==
    /\ last.op = "setState"
    /\ last.key = Omitted
    /\ last.value.t = "object"
    /\ Serializable(last.value)

\* C1: Slice update is replace, not merge: when the state has a slice x and
\* setState({slice: x, value: v}) succeeds for a serializable v, state[x] is
\* v alone afterwards, whatever the slice held before.
C1_SliceReplaced ==
    (SliceUpdate /\ last.err = "none" /\ Serializable(last.value)
        /\ last.pre.t = "object" /\ last.key \in KeysOf(last.pre))
    => At(Shown(last.inst), last.key) = last.value

\* C2: Whole-state merge: setState({value: v}) without slice and with replace
\* falsy leaves the state the shallow union of the prior state p and v: the
\* keys of v carry v's values, the keys only in p keep p's, no other key exists.
C2_WholeStateMerge ==
    (WholeUpdate /\ last.replace \in {Omitted, "false"} /\ Serializable(last.pre))
    => /\ last.err = "none"
       /\ IsShallowUnion(Shown(last.inst), last.pre, last.value)

C2_Witness ==
    /\ WholeUpdate
    /\ last.replace = Omitted
    /\ last.pre = XA
    /\ last.value = YXB
    /\ Shown(last.inst) = Obj(<< <<"x", B2>>, <<"y", Num(1)>> >>)

\* C3: Whole-state replace: setState({value: v, replace: true}) without slice
\* leaves the state equal to v exactly; every slice of the prior state that is
\* no key of v is gone.
C3_WholeStateReplace ==
    (WholeUpdate /\ last.replace = "true")
    => /\ last.err = "none"
       /\ IsExactly(Shown(last.inst), last.value)
       /\ \A k \in KeysOf(last.pre) \ KeysOf(last.value) :
             k \notin KeysOf(Shown(last.inst))

C3_Witness ==
    /\ WholeUpdate
    /\ last.replace = "true"
    /\ last.pre = YXB
    /\ last.value = XA
    /\ Shown(last.inst) = XA

\* C4: Slice update is unconditional: for every slice name s, in the state or
\* not, whatever the slice holds, and every serializable v,
\* setState({slice: s, value: v}) completes without error and leaves state[s]
\* equal to v, with replace true, false or left out.  Stated here for the
\* names that are not the empty string.
C4_SliceUpdateUnconditional ==
    (SliceUpdate /\ last.key # "" /\ Serializable(last.value))
    => /\ last.err = "none"
       /\ At(Shown(last.inst), last.key) = last.value

\* C5: Singleton by name: all references got by constructing a Store with one
\* storeName (a storeName left out counting as "appState") are one instance,
\* the one the registry holds, so that what one reference changes every other
\* reference shows.
C5_SingletonByName ==
    \A hd \in handles :
        /\ registry[hd[1]] = hd[2]
        /\ stores[hd[2]].storeName = hd[1]
        /\ \A other \in handles : other[1] = hd[1] => other[2] = hd[2]

C5_Witness ==
    /\ last.op = "new"
    /\ last.err = "none"
    /\ last.key = Omitted
    /\ last.pre = XA
    /\ last.value = YXB
    /\ handles = {<<"appState", 1>>}
    /\ Shown(1) # last.pre

\* C6: Construction on a name collision: when a store named n exists with
\* state p, Store({storeName: n, initialState: m, replace: r}) leaves that
\* store's state m when r is true and the shallow union of p and m otherwise,
\* and does not read the persistence backend.
C6_CollisionPolicy ==
    (last.op = "new" /\ last.err = "none" /\ last.pre.t = "object"
        /\ Serializable(last.value))
    => /\ last.reads = 0
       /\ last.inst = registry[NameOrDefault(last.key)]
       /\ IF last.replace = "true"
          THEN IsExactly(Shown(last.inst), last.value)
          ELSE IsShallowUnion(Shown(last.inst), last.pre, last.value)

C6_Witness ==
    /\ window
    /\ last.op = "new"
    /\ last.err = "none"
    /\ last.key = "cart"
    /\ last.replace = "true"
    /\ last.pre = YXB
    /\ last.value = XA
    /\ Shown(last.inst) = XA

\* C7: No aliasing of internal state: no object reachable from a store's
\* internal state is an object the caller passed in or got back.
C7_NoAliasing ==
    \A i \in 1..Len(stores) :
        ReachSet(heap, stores[i].internalState) \cap HeldObjects = {}

\* C8: Reads are stable: the state a store shows changes in no step other
\* than a setState or a createSlice on that store (the setState a
\* construction under the store's name makes being one).
C8_ReadsStable ==
    [][\A i \in 1..Len(stores) :
          (/\ i <= Len(stores')
           /\ ~(last'.op \in {"setState", "createSlice", "new"} /\ last'.inst = i))
          => StateTree(heap', stores', i) = StateTree(heap, stores, i)]_vars

\* the last call was given an argument the operation must refuse
InvalidCall(l) ==
    \/ l.op = "new" /\ l.value.t # "object"
    \/ l.op = "setState" /\ l.key = Omitted /\ l.value.t # "object"
    \/ l.op = "createSlice" /\ l.key = NotAString

\* C9: Invalid arguments leave everything unchanged: a construction whose
\* initialState is no plain mapping, a setState without slice whose value is
\* no plain mapping and a createSlice whose name is no string fail with an
\* error, and the stores' states, the registry, the persisted snapshots and
\* the pending deferred notifications are what they were before the call.
C9_InvalidArgumentNoEffect ==
    [][InvalidCall(last') =>
          /\ last'.err = "InvalidArgument"
          /\ Len(stores') = Len(stores)
          /\ \A i \in 1..Len(stores) :
                /\ Deref(heap', stores'[i].internalState)
                      = Deref(heap, stores[i].internalState)
                /\ stores'[i].callbackList = stores[i].callbackList
                /\ stores'[i].storeName = stores[i].storeName
          /\ registry' = registry
          /\ localStorage' = localStorage
          /\ timers' = timers
          /\ invoked' = invoked]_vars

C9_Witness ==
    /\ InvalidCall(last)
    /\ last.op = "createSlice"
    /\ last.err = "InvalidArgument"
    /\ timers # <<>>
    /\ localStorage["appState"].has
    /\ Shown(last.inst) = YXB

\* C10, as claimed: an invalid-argument failure of construction, setState and
\* createSlice alike is thrown to the caller within the call.
C10_AlwaysThrown == last.err = "InvalidArgument" => last.how = "thrown"

\* C10, as amended: construction and createSlice throw the invalid-argument
\* failure within the call; setState throws nothing: it returns a promise
\* already rejected with the failure, which the caller sees when it awaits it.
C10_ThrownOrRejected ==
    last.err = "InvalidArgument" =>
        \/ last.op \in {"new", "createSlice"} /\ last.how = "thrown"
        \/ /\ last.op = "setState"
           /\ last.how = "promise"
           /\ promises # <<>>
           /\ promises[Len(promises)] = "InvalidArgument"
        \/ last.op = "await" /\ last.how = "promise"

C10_Witness ==
    /\ last.op = "await"
    /\ last.err = "InvalidArgument"
    /\ Len(stores) = 1
    /\ Shown(1) = XA

\* the call of l reached localStorage.setItem, and setItem threw
SetItemThrew(l) == "setItem throws" \in SeqRange(l.events)

\* what createSlice stores for the initialState it was given
SliceGiven(value) == IF value.t \in {"undefined", "null"} THEN Obj(<<>>) ELSE value

\* the state now of the store of call l shows the mutation that call asked for
MutationShows(l, now) ==
    CASE l.op = "createSlice" -> At(now, l.key) = SliceGiven(l.value)
      [] l.op = "setState" /\ Truthy(l.key) -> At(now, l.key) = l.value
      [] l.op = "setState" /\ ~Truthy(l.key) /\ l.replace = "true" ->
            IsExactly(now, l.value)
      [] OTHER -> \A k \in KeysOf(l.value) : At(now, k) = At(l.value, k)

\* C11: Persistence write failure: when setItem throws during setState or
\* createSlice the call fails, yet the mutation of that call is applied and
\* shown by the state getter, the persisted snapshot keeps its content, and
\* the notification of the call is not cancelled: the deferred publish of
\* setState stays queued, the publish of createSlice has run.
C11_WriteFailure ==
    [][(last'.op \in {"setState", "createSlice"} /\ SetItemThrew(last')) =>
          /\ last'.err = "PersistenceFailure"
          /\ MutationShows(last', StateTree(heap', stores', last'.inst))
          /\ localStorage' = localStorage
          /\ last'.op = "setState" =>
                /\ last'.how = "promise"
                /\ timers' = Append(timers, last'.inst)
          /\ last'.op = "createSlice" =>
                /\ last'.how = "thrown"
                /\ last'.events = <<"mutate", "publish", "setItem throws">>]_vars

C11_Witness ==
    /\ last.op = "setState"
    /\ SetItemThrew(last)
    /\ last.err = "PersistenceFailure"
    /\ last.pre = Obj(<< <<"x", B2>> >>)
    /\ last.value = XA
    /\ Shown(last.inst) = XA
    /\ localStorage["appState"] = Item(Serialize(Obj(<< <<"x", B2>> >>)))
    /\ timers = <<last.inst>>

\* the text JSON.stringify makes of the state the getter of store i shows
SnapshotOf(i) == TextOf(JSONstringify(Shown(i)))

\* C12: Persisted snapshot tracks the state: with localStorage there and
\* setItem never throwing, once a setState, a createSlice or a construction
\* under the store's name has written the store, the text under the store's
\* name is the serialization of the state the getter shows, in every state
\* between operations.
C12_SnapshotTracksState ==
    \A i \in 1..Len(stores) :
        (window /\ registry[stores[i].storeName] = i
            /\ localStorage[stores[i].storeName].has)
        => localStorage[stores[i].storeName].text = SnapshotOf(i)

\* C13: Load at first construction: when no store named n is registered,
\* Store({storeName: n, initialState: m}) gives a store whose state is the
\* snapshot localStorage holds under n, when it holds one that parses, m
\* being discarded; and whose state is m when localStorage holds nothing
\* under n or is not there.
C13_LoadAtFirstConstruction ==
    [][(last'.op = "new" /\ last'.err = "none"
            /\ registry[NameOrDefault(last'.key)] = 0) =>
          LET blob == localStorage[NameOrDefault(last'.key)]
              now == StateTree(heap', stores', last'.inst)
          IN /\ (window /\ blob.has /\ JSONparse(blob.text).ok)
                    => now = JSONparse(blob.text).v
             /\ (~window \/ ~blob.has) => now = last'.value
             /\ localStorage' = localStorage]_vars

\* a state written by setState comes back in the first construction of the
\* next process, the initialState of that construction being another
C13_Witness ==
    /\ last.op = "new"
    /\ last.err = "none"
    /\ last.pre = Undefined
    /\ last.value = YXB
    /\ localStorage["appState"] = Item(Serialize(XA))
    /\ Shown(last.inst) = XA

\* a text that is there and is no JSON
Malformed(blob) == blob.has /\ blob.text # <<>> /\ ~JSONparse(blob.text).ok

\* a text that is JSON for something other than a plain mapping
Foreign(blob) ==
    blob.has /\ JSONparse(blob.text).ok /\ JSONparse(blob.text).v.t # "object"

\* C14: Load fails safe: whatever text lies under the store's name at the
\* first construction, the construction succeeds and the state is a plain
\* mapping, the empty one when the text is malformed or foreign; so the
\* internal state of every store is a plain mapping in every reachable state.
C14_LoadFailsSafe ==
    /\ \A i \in 1..Len(stores) : isObject(heap, stores[i].internalState)
    /\ (last.op = "new" /\ last.pre = Undefined /\ last.value.t = "object")
          => /\ last.err = "none"
             /\ Shown(last.inst).t = "object"
             /\ (window /\ (Malformed(localStorage[NameOrDefault(last.key)])
                             \/ Foreign(localStorage[NameOrDefault(last.key)])))
                   => Shown(last.inst) = Obj(<<>>)

\* the step is a createSlice that succeeded
SliceCreated(l) == l.op = "createSlice" /\ l.err = "none"

\* the slice a createSlice should leave when an initialState counts as
\* provided whenever it is not undefined
SliceProvided(value) == IF value.t = "undefined" THEN Obj(<<>>) ELSE value

\* C15, as claimed: after createSlice({name, initialState}) succeeds,
\* state[name] is initialState when one is provided (null being one) and
\* the empty mapping otherwise, whatever the slice held before; and the
\* same call made again leaves the state as it is.
C15_SliceIsInitialState ==
    [][SliceCreated(last') =>
          /\ At(StateTree(heap', stores', last'.inst), last'.key)
                = SliceProvided(last'.value)
          /\ (SliceCreated(last) /\ last.inst = last'.inst /\ last.key = last'.key
                 /\ last.value = last'.value)
                => StateTree(heap', stores', last'.inst)
                      = StateTree(heap, stores, last.inst)]_vars

\* C15, as amended: after createSlice({name, initialState}) succeeds,
\* state[name] is initialState when that is neither undefined nor null and
\* the empty mapping otherwise, whatever the slice held before; and the same
\* call made again leaves the state as it is.
C15_SliceIsInitialStateOrEmpty ==
    [][SliceCreated(last') =>
          /\ At(StateTree(heap', stores', last'.inst), last'.key)
                = SliceGiven(last'.value)
          /\ (SliceCreated(last) /\ last.inst = last'.inst /\ last.key = last'.key
                 /\ last.value = last'.value)
                => StateTree(heap', stores', last'.inst)
                      = StateTree(heap, stores, last.inst)]_vars

C15_Witness ==
    /\ SliceCreated(last)
    /\ last.key = "x"
    /\ last.pre = XA
    /\ last.value = Null
    /\ Shown(last.inst) = Obj(<< <<"x", Obj(<<>>)>> >>)

\* what a setState that wrote the state does within the call, in order;
\* a write that fails does so in setItem, or before it when the state has
\* no JSON text
SetStateOrders(err) ==
    IF window
    THEN IF err = "none"
         THEN {<<"mutate", "setTimeout", "setItem">>}
         ELSE {<<"mutate", "setTimeout", "setItem throws">>, <<"mutate", "setTimeout">>}
    ELSE {<<"mutate", "setTimeout">>}

\* what a createSlice that got past its publish does within the call
CreateSliceOrders ==
    IF window
    THEN {<<"mutate", "publish", "setItem">>, <<"mutate", "publish", "setItem throws">>}
    ELSE {<<"mutate", "publish">>}

\* C16: Ordering within setState: the state is written first, the write to
\* localStorage is done or has failed before the call returns, and the
\* publish of the call is only queued by then: it runs in a later step,
\* after the caller awaiting the call has got its outcome.  In createSlice
\* the publish and the write both happen within the call, the publish first.
C16_Ordering ==
    [][/\ (last'.op = "setState" /\ last'.err \in {"none", "PersistenceFailure"}) =>
            /\ last'.events \in SetStateOrders(last'.err)
            /\ timers' = Append(timers, last'.inst)
            /\ promises' = Append(promises, last'.err)
       /\ last'.op = "timer" =>
            /\ promises = <<>>
            /\ timers = <<last'.inst>> \o timers'
            /\ last'.events \in {<<>>, <<"publish">>}
       /\ (last'.op = "createSlice" /\ last'.err \in {"none", "PersistenceFailure"}) =>
            /\ last'.events \in CreateSliceOrders
            /\ timers' = timers]_vars

C16_Witness ==
    /\ last.op = "timer"
    /\ last.events = <<"publish">>
    /\ timers = <<>>
    /\ promises = <<>>
    /\ localStorage["appState"] = Item(Serialize(XA))
    /\ Len(stores) = 1
    /\ Shown(1) = XA

SetStateCalls == {"setState", "new"}

\* the only steps that touch the queue of deferred publishes: a setState
\* that wrote the state appends one entry, a firing removes the oldest
TimersFIFO ==
    [][/\ (last'.op \in SetStateCalls /\ "mutate" \in SeqRange(last'.events)) =>
            timers' = Append(timers, last'.inst)
       /\ (last'.op \in SetStateCalls /\ "mutate" \notin SeqRange(last'.events)) =>
            timers' = timers
       /\ last'.op = "timer" =>
            /\ timers = <<last'.inst>> \o timers'
            /\ last'.err = "none" => last'.value = StateTree(heap', stores', last'.inst)
       /\ last'.op \notin SetStateCalls \cup {"timer"} => timers' = timers]_vars

Changed(list, cur, next) ==
    SelectSeq([k \in 1..Len(list) |->
                  [callback |-> list[k].callback,
                   was |-> JSONstringify(Select(list[k].config, cur)),
                   is |-> JSONstringify(Select(list[k].config, next)),
                   arg |-> Select(list[k].config, next)]],
              LAMBDA pair : pair.was # pair.is)

Invocations(pairs) == [k \in 1..Len(pairs) |-> <<pairs[k].callback, pairs[k].arg>>]

\* C19: Notifier publish: given two plain mappings, publish goes through the
\* callback list in subscription order and calls the callback of a pair once,
\* with selector(next), exactly when selector(cur) and selector(next) differ
\* in their JSON text; no other pair is called; when cur or next is not a
\* plain mapping publish throws and no callback has run.
C19_NotifierPublish ==
    [][last'.op = "publish" =>
          IF last'.pre.t = "object" /\ last'.value.t = "object"
          THEN /\ last'.err = "none"
               /\ invoked' = invoked \o Invocations(Changed(stores[last'.inst].callbackList,
                                                             last'.pre, last'.value))
          ELSE /\ last'.err = "Error"
               /\ last'.how = "thrown"
               /\ invoked' = invoked]_vars

\* publish({x: {a: 1}}, {x: {a: 1}, y: 1}) on the list (cb1, slice x),
\* (cb2, whole), (cb1, whole): the first pair is passed over, then cb2 and
\* cb1 are called, in that order, with the next state
C19_Witness ==
    /\ last.op = "publish"
    /\ last.pre = XA
    /\ last.value = XAY
    /\ stores[1].callbackList = <<[callback |-> "cb1", config |-> "sliceX"],
                                  [callback |-> "cb2", config |-> "whole"],
                                  [callback |-> "cb1", config |-> "whole"]>>
    /\ invoked = << <<"cb2", XAY>>, <<"cb1", XAY>> >>

\* the callbacks that have an entry in a callback list
Subscribed(list) == {list[k].callback : k \in 1..Len(list)}

\* the positions of a callback list whose callback is not cb
OtherPositions(list, cb) == {k \in 1..Len(list) : list[k].callback # cb}

\* after is before without the entries of cb: every other entry, in the
\* order it had
IsWithout(before, after, cb) ==
    /\ Len(after) = Cardinality(OtherPositions(before, cb))
    /\ \A k \in OtherPositions(before, cb) :
          after[Cardinality({m \in OtherPositions(before, cb) : m <= k})] = before[k]

\* the callbacks a step has invoked
NewlyInvoked ==
    {invoked'[k][1] : k \in (Len(invoked) + 1)..Len(invoked')}

\* C20: Unsubscribe is final and by callback reference: the unsubscribe
\* function of cb removes every entry whose callback is cb, whatever its
\* selector, and keeps the other entries in their order; called when cb has
\* no entry it changes nothing; a callback with no entry gets one only by a
\* subscribe of that callback; and no publish, direct or run from the queue
\* of deferred publishes, invokes a callback that has no entry.
C20_UnsubscribeFinal ==
    [][/\ last'.op = "unsubscribe" =>
            /\ IsWithout(stores[last'.inst].callbackList,
                         stores'[last'.inst].callbackList, last'.key)
            /\ last'.key \notin Subscribed(stores[last'.inst].callbackList) =>
                  /\ stores' = stores
                  /\ invoked' = invoked
                  /\ timers' = timers
       /\ \A cb \in Callbacks :
            (/\ Len(stores') = Len(stores)
             /\ \E i \in 1..Len(stores) :
                   /\ cb \notin Subscribed(stores[i].callbackList)
                   /\ cb \in Subscribed(stores'[i].callbackList)) =>
               (last'.op = "subscribe" /\ last'.key = cb)
       /\ last'.op \in {"publish", "timer"} =>
            NewlyInvoked \subseteq Subscribed(stores[last'.inst].callbackList)]_vars

\* cb1 had its entries and cb2 one, to the whole state; the
\* unsubscribe function of cb1 was called, and the publish after it called cb2 only
C20_Witness ==
    /\ last.op = "publish"
    /\ last.pre = XA
    /\ last.value = XAY
    /\ stores[1].callbackList = <<[callback |-> "cb2", config |-> "whole"]>>
    /\ unsubs = {<<1, "cb1">>, <<1, "cb2">>}
    /\ invoked = << <<"cb2", XAY>> >>
    /\ calls = 2

\* the names that have a store
RegisteredNames == {n \in StoreNames : registry[n] # 0}

\* C21: Registry is monotonic with at most one store per name: a name that
\* is registered stays registered, to the same Store instance, whatever
\* constructions (successful or failing) and updates follow; a name gets
\* its entry only by a construction under that name that succeeded, with
\* a valid initialState, when the name had no entry; no operation other
\* than a construction changes the registry; and the store of a name bears
\* that name.
C21_RegistryMonotonic ==
    [][/\ \A n \in RegisteredNames :
            /\ registry'[n] = registry[n]
            /\ Len(stores') >= registry[n]
            /\ stores'[registry[n]].storeName = n
       /\ \A n \in StoreNames \ RegisteredNames :
            registry'[n] # 0 =>
               /\ last'.op = "new"
               /\ last'.err = "none"
               /\ NameOrDefault(last'.key) = n
               /\ last'.value.t = "object"
               /\ last'.inst = registry'[n]
               /\ stores'[registry'[n]].storeName = n
       /\ registry' # registry => last'.op = "new"]_vars

\* two names are registered, a construction under one of them with an
\* invalid initialState has just failed, and each name has its own store
C21_Witness ==
    /\ RegisteredNames = StoreNames
    /\ registry["appState"] # registry["cart"]
    /\ last.op = "new"
    /\ last.err = "InvalidArgument"
    /\ last.key = "cart"

\* before and after are the same but for the slice s: the same other
\* slice names, each with the value it had
SameButFor(before, after, s) ==
    /\ KeysOf(before) \ {s} = KeysOf(after) \ {s}
    /\ \A k \in KeysOf(before) \ {s} : At(after, k) = At(before, k)

\* C22: Slice operations touch only their slice: a setState given a slice s
\* or a createSlice of name s that succeeds leaves every other slice of the
\* store with its value, adds and removes no other slice name, leaves the
\* registry and the subscription lists as they were, and leaves the state
\* of every store of another name as it was.
C22_SliceFrame ==
    [][(/\ \/ last'.op = "setState" /\ last'.key # Omitted
           \/ last'.op = "createSlice"
        /\ last'.err = "none") =>
          /\ Len(stores') = Len(stores)
          /\ SameButFor(Shown(last'.inst), StateTree(heap', stores', last'.inst),
                        last'.key)
          /\ registry' = registry
          /\ \A i \in 1..Len(stores) :
                /\ stores'[i].callbackList = stores[i].callbackList
                /\ stores[i].storeName # stores[last'.inst].storeName =>
                      StateTree(heap', stores', i) = Shown(i)]_vars

\* the same, for slice names other than the empty string
C22_SliceFrameNamed ==
    [][(/\ \/ last'.op = "setState" /\ last'.key # Omitted
           \/ last'.op = "createSlice"
        /\ last'.key # ""
        /\ last'.err = "none") =>
          /\ Len(stores') = Len(stores)
          /\ SameButFor(Shown(last'.inst), StateTree(heap', stores', last'.inst),
                        last'.key)
          /\ registry' = registry
          /\ \A i \in 1..Len(stores) :
                /\ stores'[i].callbackList = stores[i].callbackList
                /\ stores[i].storeName # stores[last'.inst].storeName =>
                      StateTree(heap', stores', i) = Shown(i)]_vars

====
